---- MODULE Spec2Model ----
(***************************************************************************)
(* Menu composition of the IDE: MenuParser.parse turns one plugin's menu   *)
(* contribution into a provenance-tagged forest, MenuManager merges such   *)
(* forests into the single application menu.  The store of the            *)
(* application keeps the run configurations and the chosen one.            *)
(*                                                                         *)
(* A string is a sequence of one-character strings, so that the parser's   *)
(* whitespace stripping is computed.  A node is a record: a Menu has the   *)
(* fields name and children, a MenuItem has name, command and plugin.  A   *)
(* field the object does not have is a field the record does not have.     *)
(***************************************************************************)
EXTENDS Integers, Sequences, FiniteSets, TLC

VARIABLES
    argContent, \* parse: the argument content
    argPlugin,  \* parse: the argument pluginInfo
    result,     \* parse: what the call returned or threw
    menus,      \* MenuManager._menus
    before,     \* _menus as it was when the last call started
    call,       \* the last call on the manager: [op, plugin, arg]
    errors,     \* number of console.error reports made by the last call
    threw,      \* TRUE iff the last call ended with an uncaught TypeError
    handed,     \* number of nodes the calls so far were handed
    runConfigurations, \* store: state.runConfigurations
    chosenRunConfig,   \* store: state.chosenRunConfig
    commit,     \* store: the last mutation committed, with its payload
    inRange     \* store: no removeRunConfig so far was given a configuration
                \* that was not in the list or an index outside of it

parserVars == <<argContent, argPlugin, result>>
managerVars == <<menus, before, call, errors, threw, handed>>
storeVars == <<runConfigurations, chosenRunConfig, commit, inRange>>
vars == <<argContent, argPlugin, result, menus, before, call, errors, threw, handed,
          runConfigurations, chosenRunConfig, commit, inRange>>

-----------------------------------------------------------------------------
(* Bounds *)

\* nodes (Menus and MenuItems together) that one manager is handed, over
\* all its calls
MaxNodes == 4
\* nodes of one payload of parse
MaxPayload == 3
\* run configurations in the list of the store
MaxConfigs == 3

Names == {<<"a">>, <<"b">>}
Commands == {<<"x">>, <<"y">>}
Plugins == {"P1", "P2"}

NoCall == [op |-> "none"]

-----------------------------------------------------------------------------
(* MenuParser.ts *)

\* type Menu
Menu(n, ch) == [name |-> n, children |-> ch]

\* type MenuItem, as a plugin author writes it (no plugin yet)
MenuItem(n, c) == [name |-> n, command |-> c]

\* the value of a property the object does not have
Undefined == <<"undefined">>

\* m.f
Field(m, f) == IF f \in DOMAIN m THEN m[f] ELSE Undefined

\* the whitespace characters of the payloads
Whitespace == {" "}

\* s.replace(/\s+/g, '')
RECURSIVE StripWhitespace(_)
StripWhitespace(s) ==
    IF s = <<>> THEN <<>>
    ELSE IF Head(s) \in Whitespace THEN StripWhitespace(Tail(s))
    ELSE <<Head(s)>> \o StripWhitespace(Tail(s))

\* an emptiness test that takes whitespace for content
isEmpty_NoStrip(s) == s # Undefined /\ s # <<>>

\* the arrow function isEmpty of _getError: !!s && !!(s.replace(/\s+/g, ''))
isEmpty(s) == s # Undefined /\ s # <<>> /\ StripWhitespace(s) # <<>>

\* the test `(<Menu>m).children` of _menuForEach: an array is truthy
HasChildren(m) == "children" \in DOMAIN m

NoError == "valid"

\* a validation that checks a whole sibling list before it descends into
\* the children of its Menus
RECURSIVE _getError_SiblingsFirst(_)
_getError_SiblingsFirst(ms) ==
    LET own(m) == IF HasChildren(m)
                  THEN IF ~isEmpty(Field(m, "name")) THEN "Menus must be named"
                       ELSE NoError
                  ELSE IF ~isEmpty(Field(m, "name")) THEN "Menu items must be named"
                  ELSE IF ~isEmpty(Field(m, "command"))
                       THEN "Menu items must have a command"
                       ELSE NoError
        here == {i \in 1..Len(ms) : own(ms[i]) # NoError}
        below == {i \in 1..Len(ms) :
                     /\ HasChildren(ms[i])
                     /\ _getError_SiblingsFirst(ms[i].children) # NoError}
    IN  IF here # {} THEN own(ms[CHOOSE i \in here : \A j \in here : i <= j])
        ELSE IF below # {}
        THEN _getError_SiblingsFirst(ms[CHOOSE i \in below : \A j \in below : i <= j].children)
        ELSE NoError

\* _getError: _menuForEach with the two validating callbacks; the message of
\* the first callback that returns false, NoError when none does
RECURSIVE _getError(_)
_getError(ms) ==
    IF ms = <<>> THEN NoError
    ELSE LET m == Head(ms)
             here == IF HasChildren(m)
                     THEN IF ~isEmpty(Field(m, "name")) THEN "Menus must be named"
                          ELSE _getError(m.children)
                     ELSE IF ~isEmpty(Field(m, "name")) THEN "Menu items must be named"
                          ELSE IF ~isEmpty(Field(m, "command"))
                               THEN "Menu items must have a command"
                               ELSE NoError
         IN  IF here # NoError THEN here ELSE _getError(Tail(ms))

\* a plugin link that leaves the author's own plugin value in place
KeepSuppliedPlugin(m, pluginInfo) ==
    IF "plugin" \in DOMAIN m THEN m
    ELSE [f \in DOMAIN m \cup {"plugin"} |-> IF f = "plugin" THEN pluginInfo ELSE m[f]]

\* the onMenuItem callback of parse: m.plugin = pluginInfo
LinkPlugin(m, pluginInfo) ==
    [f \in DOMAIN m \cup {"plugin"} |-> IF f = "plugin" THEN pluginInfo ELSE m[f]]

\* the second _menuForEach of parse: onMenu does nothing, onMenuItem links
\* the plugin
RECURSIVE Stamp(_, _)
Stamp(ms, pluginInfo) ==
    [i \in 1..Len(ms) |->
        IF HasChildren(ms[i])
        THEN [ms[i] EXCEPT !.children = Stamp(ms[i].children, pluginInfo)]
        ELSE LinkPlugin(ms[i], pluginInfo)]

\* A text is well-formed JSON, which JSON.parse turns into its value, or it
\* is not, and JSON.parse throws.  The value is an array (json), a string
\* (string), or a value that cannot be iterated (scalar).
MalformedText == [wellFormed |-> FALSE]
JsonText(v) == [wellFormed |-> TRUE, json |-> v]
StringText(s) == [wellFormed |-> TRUE, string |-> s]
ScalarText(k) == [wellFormed |-> TRUE, scalar |-> k]

\* the JSON values that `for (let m of menus)` cannot iterate; "object" is
\* one Menu object that is not wrapped in an array
NotIterable == {"null", "number", "boolean", "object"}

\* what `for (let m of menus)` yields for a string: its characters, which
\* have none of the properties children, name and command
Characters(s) == [i \in 1..Len(s) |-> [f \in {} |-> Undefined]]

\* the Error objects of parse, and the TypeError of the runtime
FormatError == [threw |-> TRUE, type |-> "Error",
                message |-> <<"JSON in invalid format">>]
InvalidMenus(error) == [threw |-> TRUE, type |-> "Error",
                        message |-> <<"Invalid menus: ", error>>]
NotIterableError == [threw |-> TRUE, type |-> "TypeError",
                     message |-> <<"menus is not iterable">>]

\* a parse that takes a text it cannot read for an empty contribution
parse_Lenient(text, pluginInfo) ==
    IF ~text.wellFormed \/ "scalar" \in DOMAIN text \/ "string" \in DOMAIN text
    THEN [threw |-> FALSE, menus |-> <<>>]
    ELSE LET error == _getError(text.json)
         IN  IF error # NoError
             THEN InvalidMenus(error)
             ELSE [threw |-> FALSE, menus |-> Stamp(text.json, pluginInfo)]

\* parse: the value it returns or the error it throws
parse(text, pluginInfo) ==
    IF ~text.wellFormed THEN FormatError
    ELSE IF "scalar" \in DOMAIN text THEN NotIterableError
    ELSE IF "string" \in DOMAIN text
    THEN LET error == _getError(Characters(text.string))
         IN  IF error # NoError
             THEN InvalidMenus(error)
             ELSE [threw |-> FALSE, menus |-> text.string]
    ELSE LET error == _getError(text.json)
         IN  IF error # NoError
             THEN InvalidMenus(error)
             ELSE [threw |-> FALSE, menus |-> Stamp(text.json, pluginInfo)]

-----------------------------------------------------------------------------
(* The contributions a plugin can hand to the manager: every node with     *)
(* names and commands that parse accepts, as parse returns it.             *)

Fill(menuSet, forests) == {[m EXCEPT !.children = f] : m \in menuSet, f \in forests}
Cons(first, rest) == {<<x>> \o f : x \in first, f \in rest}

\* the nodes, and the forests, of exactly k nodes
RECURSIVE ForestsOfSize(_, _, _)
NodesOfSize(k, menuSet, itemSet) ==
    (IF k = 1 THEN itemSet ELSE {})
    \cup Fill(menuSet, ForestsOfSize(k - 1, menuSet, itemSet))
ForestsOfSize(k, menuSet, itemSet) ==
    IF k = 0 THEN {<<>>}
    ELSE UNION {Cons(NodesOfSize(j, menuSet, itemSet),
                     ForestsOfSize(k - j, menuSet, itemSet)) : j \in 1..k}

Written(k) ==
    NodesOfSize(k, {Menu(n, <<>>) : n \in Names},
                   {MenuItem(n, c) : n \in Names, c \in Commands})

\* the names in a forest
RECURSIVE NamesIn(_)
NamesIn(f) ==
    UNION {{f[i].name} \cup (IF HasChildren(f[i]) THEN NamesIn(f[i].children) ELSE {}) :
           i \in 1..Len(f)}

\* what parse returns to a plugin, node by node, with the number of nodes
\* and the names in it
Parsed ==
    {[size |-> k,
      nodes |-> {[plugin |-> p,
                  node |-> parse(JsonText(<<m>>), p).menus[1],
                  names |-> NamesIn(<<m>>)] : m \in Written(k), p \in Plugins}] :
     k \in 1..MaxNodes}

ParsedOfSize(k) == (CHOOSE s \in Parsed : s.size = k).nodes

-----------------------------------------------------------------------------
(* MenuManager.ts *)

\* MenuManager._isMenu
_isMenu(itm) == "children" \in DOMAIN itm

\* the search loop of _registerMenuItem: `found`
ItemFound(existing_menus, new_item) ==
    \E i \in 1..Len(existing_menus) :
        /\ existing_menus[i].name = new_item.name
        /\ ~_isMenu(new_item)

\* an item merge in which the last writer wins
_registerMenuItem_Replace(existing_menus, new_item) ==
    IF ~ItemFound(existing_menus, new_item)
    THEN [list |-> Append(existing_menus, new_item), errs |-> 0, threw |-> FALSE]
    ELSE [list |-> [i \in 1..Len(existing_menus) |->
                      IF existing_menus[i].name = new_item.name
                         /\ ~_isMenu(existing_menus[i])
                      THEN new_item ELSE existing_menus[i]],
          errs |-> 1, threw |-> FALSE]

\* an item merge without the duplicate check
_registerMenuItem_Push(existing_menus, new_item) ==
    [list |-> Append(existing_menus, new_item), errs |-> 0, threw |-> FALSE]

\* an item merge that puts a new MenuItem in front of its siblings
_registerMenuItem_Unshift(existing_menus, new_item) ==
    IF ~ItemFound(existing_menus, new_item)
    THEN [list |-> <<new_item>> \o existing_menus, errs |-> 0, threw |-> FALSE]
    ELSE [list |-> existing_menus, errs |-> 1, threw |-> FALSE]

\* an item merge in which a duplicate ends the whole call
_registerMenuItem_Abort(existing_menus, new_item) ==
    IF ~ItemFound(existing_menus, new_item)
    THEN [list |-> Append(existing_menus, new_item), errs |-> 0, threw |-> FALSE]
    ELSE [list |-> existing_menus, errs |-> 1, threw |-> TRUE]

\* MenuManager._registerMenuItem: the layer after the call and the number
\* of console.error reports
_registerMenuItem(existing_menus, new_item) ==
    IF ~ItemFound(existing_menus, new_item)
    THEN [list |-> Append(existing_menus, new_item), errs |-> 0, threw |-> FALSE]
    ELSE [list |-> existing_menus, errs |-> 1, threw |-> FALSE]

\* a menu search that takes the first submenu whatever its name
FirstMenu(existing_menus, new_item) ==
    LET hits == {i \in 1..Len(existing_menus) : _isMenu(existing_menus[i])}
    IN  IF hits = {} THEN 0 ELSE CHOOSE i \in hits : \A j \in hits : i <= j

\* the search loop of _registerMenu: the index of `found_menu` in the
\* layer, 0 for null
FoundMenu(existing_menus, new_item) ==
    LET hits == {i \in 1..Len(existing_menus) :
                    /\ _isMenu(existing_menus[i])
                    /\ existing_menus[i].name = new_item.name}
    IN  IF hits = {} THEN 0 ELSE CHOOSE i \in hits : \A j \in hits : i <= j

\* MenuManager._registerMenu.  `for (let m of new_item.children)` throws a
\* TypeError when new_item has no children, after found_menu was pushed.
RECURSIVE _registerMenu(_, _)
RECURSIVE MergeLoop(_, _, _)
MergeLoop(acc, children, k) ==
    IF k > Len(children) \/ acc.threw THEN acc
    ELSE LET m == children[k]
             r == IF _isMenu(m) THEN _registerMenu(acc.list, m)
                                ELSE _registerMenuItem(acc.list, m)
         IN  MergeLoop([list |-> r.list, errs |-> acc.errs + r.errs,
                        threw |-> r.threw], children, k + 1)

_registerMenu(existing_menus, new_item) ==
    LET found == FoundMenu(existing_menus, new_item)
        list1 == IF found = 0
                 THEN Append(existing_menus, [name |-> new_item.name, children |-> <<>>])
                 ELSE existing_menus
        at == IF found = 0 THEN Len(list1) ELSE found
    IN  IF ~_isMenu(new_item)
        THEN [list |-> list1, errs |-> 0, threw |-> TRUE]
        ELSE LET r == MergeLoop([list |-> list1[at].children, errs |-> 0,
                                 threw |-> FALSE], new_item.children, 1)
             IN  [list |-> [list1 EXCEPT ![at].children = r.list],
                  errs |-> r.errs, threw |-> r.threw]

\* an unregister that takes out every MenuItem of a name that the forest
\* names, whichever plugin owns it
RECURSIVE _unregisterMenu_ByName(_, _)
RECURSIVE UnregisterLoop(_, _, _)
UnregisterLoop(list, children, k) ==
    IF k > Len(children) THEN list
    ELSE UnregisterLoop(_unregisterMenu_ByName(list, children[k]), children, k + 1)

_unregisterMenu_ByName(existing_menus, new_item) ==
    IF ~_isMenu(new_item)
    THEN LET keep(x) == _isMenu(x) \/ x.name # new_item.name
         IN  SelectSeq(existing_menus, keep)
    ELSE LET found == FoundMenu(existing_menus, new_item)
         IN  IF found = 0 THEN existing_menus
             ELSE [existing_menus EXCEPT
                     ![found].children = UnregisterLoop(@, new_item.children, 1)]

\* MenuManager._unregisterMenu: the body is a TODO comment
_unregisterMenu(existing_menus, new_item) == existing_menus

-----------------------------------------------------------------------------
(* The manager as a state machine: the host hands it, one call at a time,  *)
(* the nodes parse returned to a plugin.                                   *)

NotCalled == [called |-> FALSE]

ParserIdle ==
    /\ argContent = MalformedText
    /\ argPlugin = "P1"
    /\ result = NotCalled

\* constructor
ManagerNew ==
    /\ menus = <<>>
    /\ before = <<>>
    /\ call = NoCall
    /\ errors = 0
    /\ threw = FALSE
    /\ handed = 0

\* the state object of the store
StoreNew ==
    /\ runConfigurations = <<>>
    /\ chosenRunConfig = Undefined
    /\ commit = NoCall
    /\ inRange = TRUE

Init == ParserIdle /\ ManagerNew /\ StoreNew

Record(op, p, arg, k) ==
    /\ before' = menus
    /\ call' = [op |-> op, plugin |-> p, arg |-> arg]
    /\ handed' = handed + k

\* MenuManager.register
Register(p, menu, k) ==
    /\ LET r == _registerMenu(menus, menu)
       IN  /\ menus' = r.list
           /\ errors' = r.errs
           /\ threw' = r.threw
    /\ Record("register", p, menu, k)
    /\ UNCHANGED parserVars
    /\ UNCHANGED storeVars

\* MenuManager.unregister
Unregister(p, menu, k) ==
    /\ menus' = _unregisterMenu(menus, menu)
    /\ errors' = 0
    /\ threw' = FALSE
    /\ Record("unregister", p, menu, k)
    /\ UNCHANGED parserVars
    /\ UNCHANGED storeVars

Next ==
    \/ \E k \in 1..(MaxNodes - handed) : \E c \in ParsedOfSize(k) :
          Register(c.plugin, c.node, k)
    \/ \E k \in 1..(MaxNodes - handed) : \E c \in ParsedOfSize(k) :
          Unregister(c.plugin, c.node, k)

Spec == Init /\ [][Next]_vars

-----------------------------------------------------------------------------
(* The parser as a state machine: one call of parse on a payload of at     *)
(* most MaxPayload nodes, which need not be valid.                         *)

Restrict(r, D) == [f \in D |-> r[f]]

\* names as a payload may give them: good, whitespace only, empty
PayloadNames == {<<"a">>, <<" ">>, <<>>}
PayloadCommands == {<<"x">>, <<" ">>}

\* a Menu object with or without a name
PayloadMenus ==
    {Restrict(m, D) : m \in [name : PayloadNames, children : {<<>>}],
                      D \in {{"name", "children"}, {"children"}}}

\* an object without children: any of name, command and plugin may be given
PayloadItems ==
    {Restrict(m, D) :
        m \in [name : PayloadNames, command : PayloadCommands, plugin : {"Mallory"}],
        D \in SUBSET {"name", "command", "plugin"}}

Payloads(n) ==
    UNION {ForestsOfSize(k, PayloadMenus, PayloadItems) : k \in 0..n}

\* JSON strings, as sequences of characters
PayloadStrings == {<<>>, <<"a">>}

Texts(n) ==
    {MalformedText}
    \cup {ScalarText(k) : k \in NotIterable}
    \cup {StringText(s) : s \in PayloadStrings}
    \cup {JsonText(v) : v \in Payloads(n)}

InitParse ==
    /\ argContent \in Texts(MaxPayload)
    /\ argPlugin \in Plugins
    /\ result = NotCalled
    /\ ManagerNew
    /\ StoreNew

Parse ==
    /\ result = NotCalled
    /\ result' = [called |-> TRUE] @@ parse(argContent, argPlugin)
    /\ UNCHANGED <<argContent, argPlugin>>
    /\ UNCHANGED managerVars
    /\ UNCHANGED storeVars

NextParse == Parse

SpecParse == InitParse /\ [][NextParse]_vars

-----------------------------------------------------------------------------
(* plugins/vuex/index.ts: the run configurations of the store.  A          *)
(* RunConfiguration is an object; indexOf, includes and === compare        *)
(* objects by identity, so a configuration is modelled by its identity.    *)
(* Indices are those of the code, from 0.                                  *)

Configs == {<<"c1">>, <<"c2">>, <<"c3">>}

\* the payload of removeRunConfig: a configuration or a number
ByObject(c) == [object |-> c]
ByNumber(n) == [number |-> n]
Numbers == -1..MaxConfigs

\* Array.prototype.indexOf: the first index of x, -1 when there is none
indexOf(list, x) ==
    LET hits == {i \in 1..Len(list) : list[i] = x}
    IN  IF hits = {} THEN -1 ELSE (CHOOSE i \in hits : \A j \in hits : i <= j) - 1

\* list[i]: undefined outside of the list
At(list, i) == IF i >= 0 /\ i < Len(list) THEN list[i + 1] ELSE Undefined

Min(a, b) == IF a <= b THEN a ELSE b
Max(a, b) == IF a >= b THEN a ELSE b

\* Array.prototype.splice(start, 1, ...items): a negative start counts from
\* the end, a start behind the end is the end
spliceStart(list, start) ==
    IF start < 0 THEN Max(Len(list) + start, 0) ELSE Min(start, Len(list))
spliceDeleted(list, start) ==
    LET s == spliceStart(list, start)
    IN  IF s < Len(list) THEN <<list[s + 1]>> ELSE <<>>
spliceRest(list, start, items) ==
    LET s == spliceStart(list, start)
    IN  SubSeq(list, 1, s) \o items \o SubSeq(list, s + 2, Len(list))

\* a removal that keeps the chosen configuration whatever was deleted
chosenAfterRemove_Keep(chosen, rest, deleted, index) == chosen

\* removeRunConfig, lines 111-118: the chosen configuration after the splice
chosenAfterRemove(chosen, rest, deleted, index) ==
    IF chosen = Undefined THEN chosen
    ELSE IF Len(rest) = 0 THEN Undefined
    ELSE IF \E i \in 1..Len(deleted) : deleted[i] = chosen
    THEN At(rest, Min(index, Len(rest) - 1))
    ELSE chosen

\* the mutation addRunConfig
addRunConfig(config) ==
    /\ Len(runConfigurations) < MaxConfigs
    /\ runConfigurations' = Append(runConfigurations, config)
    /\ chosenRunConfig' = IF chosenRunConfig = Undefined THEN config
                          ELSE chosenRunConfig
    /\ commit' = [op |-> "addRunConfig", config |-> config]
    /\ UNCHANGED inRange
    /\ UNCHANGED parserVars
    /\ UNCHANGED managerVars

\* the mutation removeRunConfig
removeRunConfig(config) ==
    LET index == IF "number" \in DOMAIN config THEN config.number
                 ELSE indexOf(runConfigurations, config.object)
        deleted == spliceDeleted(runConfigurations, index)
        rest == spliceRest(runConfigurations, index, <<>>)
    IN  /\ runConfigurations' = rest
        /\ chosenRunConfig' = chosenAfterRemove(chosenRunConfig, rest, deleted, index)
        /\ commit' = [op |-> "removeRunConfig", payload |-> config, index |-> index,
                      chosen |-> chosenRunConfig]
        /\ inRange' = (inRange /\ index >= 0 /\ index < Len(runConfigurations))
        /\ UNCHANGED parserVars
        /\ UNCHANGED managerVars

\* the mutation overwriteRunConfig
overwriteRunConfig(oldConfig, newConfig) ==
    LET index == indexOf(runConfigurations, oldConfig)
    IN  /\ IF index = -1
           THEN UNCHANGED <<runConfigurations, chosenRunConfig>>
           ELSE /\ runConfigurations' = spliceRest(runConfigurations, index, <<newConfig>>)
                /\ chosenRunConfig' = IF oldConfig = chosenRunConfig THEN newConfig
                                      ELSE chosenRunConfig
        /\ commit' = [op |-> "overwriteRunConfig", oldConfig |-> oldConfig,
                      newConfig |-> newConfig]
        /\ UNCHANGED inRange
        /\ UNCHANGED parserVars
        /\ UNCHANGED managerVars

InitStore == Init

NextStore ==
    \/ \E config \in Configs : addRunConfig(config)
    \/ \E config \in {ByObject(c) : c \in Configs} \cup {ByNumber(n) : n \in Numbers} :
          removeRunConfig(config)
    \/ \E oldConfig \in Configs : \E newConfig \in Configs :
          overwriteRunConfig(oldConfig, newConfig)

SpecStore == InitStore /\ [][NextStore]_vars

-----------------------------------------------------------------------------
(* Vocabulary of the properties *)

Range(f) == {f[i] : i \in 1..Len(f)}

\* every sibling list of a forest, the top level included
RECURSIVE SiblingLists(_)
SiblingLists(f) ==
    {f} \cup UNION {SiblingLists(f[i].children) :
                     i \in {j \in 1..Len(f) : _isMenu(f[j])}}

\* every MenuItem of a forest with the names of the Menus above it
RECURSIVE ItemsIn(_, _)
ItemsIn(f, path) ==
    UNION {IF _isMenu(f[i])
           THEN ItemsIn(f[i].children, Append(path, f[i].name))
           ELSE {[path |-> path, item |-> f[i]]} : i \in 1..Len(f)}

\* every Menu of a forest, as the names from the top level down to it
RECURSIVE MenusIn(_, _)
MenusIn(f, path) ==
    UNION {IF _isMenu(f[i])
           THEN {Append(path, f[i].name)}
                \cup MenusIn(f[i].children, Append(path, f[i].name))
           ELSE {} : i \in 1..Len(f)}

\* the sibling list below the Menus named by path; <<>> when there is none
RECURSIVE ListAt(_, _)
ListAt(f, path) ==
    IF path = <<>> THEN f
    ELSE LET hits == {i \in 1..Len(f) : _isMenu(f[i]) /\ f[i].name = Head(path)}
         IN  IF hits = {} THEN <<>>
             ELSE ListAt(f[CHOOSE i \in hits : \A j \in hits : i <= j].children,
                         Tail(path))

\* the number of MenuItems of a forest
RECURSIVE NumItems(_)
NumItems(f) ==
    IF f = <<>> THEN 0
    ELSE (IF _isMenu(Head(f)) THEN NumItems(Head(f).children) ELSE 1)
         + NumItems(Tail(f))

IsPrefix(p, q) == Len(p) <= Len(q) /\ SubSeq(q, 1, Len(p)) = p

\* the tree shape: which Menus and which MenuItems under which parents,
\* whatever the order of the siblings
Shape(f) == [menus |-> MenusIn(f, <<>>), items |-> ItemsIn(f, <<>>)]

MenuNames(list) == {list[i].name : i \in {j \in 1..Len(list) : _isMenu(list[j])}}
ItemNames(list) == {list[i].name : i \in {j \in 1..Len(list) : ~_isMenu(list[j])}}

\* no two Menus and no two MenuItems of one sibling list share a name
Unique(list) ==
    \A i, j \in 1..Len(list) :
        (i < j /\ list[i].name = list[j].name) => _isMenu(list[i]) # _isMenu(list[j])

WellFormed(f) == \A list \in SiblingLists(f) : Unique(list)

IsRegister == call.op = "register"
IsUnregister == call.op = "unregister"

-----------------------------------------------------------------------------
(* MenuManager: properties *)

\* C1: register(F) followed by unregister(F) leaves the forest as it was
\* before register(F).
RoundTrip ==
    [][(IsRegister /\ ~threw /\ call'.op = "unregister" /\ call'.arg = call.arg)
        => menus' = before]_vars

\* C2: a Menu and a MenuItem of one name live side by side: after
\* register(F) every Menu of F is in the forest, and every MenuItem of F has
\* a MenuItem of its name in its sibling list (itself, or the earlier one
\* that it was dropped for).
MenuAndItemShareName ==
    (IsRegister /\ ~threw) =>
        /\ MenusIn(<<call.arg>>, <<>>) \subseteq MenusIn(menus, <<>>)
        /\ \A e \in ItemsIn(<<call.arg>>, <<>>) :
              \E x \in Range(ListAt(menus, e.path)) :
                  ~_isMenu(x) /\ x.name = e.item.name

\* C3: every sibling list of the forest, at every depth, holds at most one
\* Menu and at most one MenuItem of a given name.
SiblingUniqueness == WellFormed(menus)

\* C3 witness: a forest with a repeated name was merged into a forest that
\* already held nodes.
SiblingUniquenessWitness ==
    /\ IsRegister
    /\ before # <<>>
    /\ ~WellFormed(<<call.arg>>)
    /\ menus # before

\* C4: a second register(F) right after register(F) leaves the forest as the
\* first left it and reports one conflict for every MenuItem of F.
DoubleRegistration ==
    [][(IsRegister /\ call'.op = "register" /\ call'.arg = call.arg)
        => /\ menus' = menus
           /\ ~threw'
           /\ errors' = NumItems(<<call.arg>>)]_vars

\* C5: a MenuItem of the forest stays where it is, as it is, through every
\* later call, and stays the only MenuItem of its name in its sibling list.
FirstWriterWins ==
    [][\A e \in ItemsIn(menus, <<>>) :
          /\ e \in ItemsIn(menus', <<>>)
          /\ \A d \in ItemsIn(menus', <<>>) :
                (d.path = e.path /\ d.item.name = e.item.name) => d = e]_vars

\* C5 witness: register dropped a MenuItem whose name an earlier MenuItem
\* with another command or another plugin holds in that sibling list.
FirstWriterWinsWitness ==
    /\ IsRegister
    /\ errors > 0
    /\ \E e \in ItemsIn(before, <<>>) : \E d \in ItemsIn(<<call.arg>>, <<>>) :
          /\ d.path = e.path
          /\ d.item.name = e.item.name
          /\ d.item.command # e.item.command
          /\ d.item.plugin # e.item.plugin
          /\ e \in ItemsIn(menus, <<>>)

\* C6: plugin P1 registers a Menu that is new to the top level, plugin P2
\* then registers a Menu of the same name; neither list of children repeats
\* a name within a variant, and the two lists share no MenuItem name and no
\* Menu name.  Then the forest holds one Menu of that name and its children
\* are P1's children followed by P2's children, plugins included.
NameKeyedMerge ==
    [][(/\ IsRegister /\ call'.op = "register"
        /\ _isMenu(call.arg) /\ _isMenu(call'.arg)
        /\ call.plugin # call'.plugin
        /\ call.arg.name = call'.arg.name
        /\ call.arg.name \notin MenuNames(before)
        /\ WellFormed(call.arg.children) /\ WellFormed(call'.arg.children)
        /\ ItemNames(call.arg.children) \cap ItemNames(call'.arg.children) = {}
        /\ MenuNames(call.arg.children) \cap MenuNames(call'.arg.children) = {})
       => /\ Cardinality({i \in 1..Len(menus') :
                            _isMenu(menus'[i]) /\ menus'[i].name = call.arg.name}) = 1
          /\ ListAt(menus', <<call.arg.name>>)
                = call.arg.children \o call'.arg.children]_vars

\* C7: register of a MenuItem at the top level completes and appends the
\* MenuItem to the top level, unless a MenuItem of its name is there; no
\* Menu is created.
TopLevelItem ==
    (IsRegister /\ ~_isMenu(call.arg)) =>
        /\ ~threw
        /\ menus = IF call.arg.name \in ItemNames(before)
                   THEN before ELSE Append(before, call.arg)

\* C8: unregister(F) takes out of the forest exactly the MenuItems of F,
\* and every Menu of F whose content all came from F; what other plugins
\* put into a Menu stays.
SelectiveUnregister ==
    IsUnregister =>
        LET gone == ItemsIn(<<call.arg>>, <<>>)
            named == MenusIn(<<call.arg>>, <<>>)
            content(p) == {e \in ItemsIn(before, <<>>) : IsPrefix(p, e.path)}
            inner(p) == {q \in MenusIn(before, <<>>) : IsPrefix(p, q) /\ q # p}
        IN  /\ ItemsIn(menus, <<>>) = ItemsIn(before, <<>>) \ gone
            /\ \A p \in named \cap MenusIn(before, <<>>) :
                  (/\ content(p) \cup inner(p) # {}
                   /\ content(p) \subseteq gone
                   /\ inner(p) \subseteq named)
                  => p \notin MenusIn(menus, <<>>)

\* the contributions that the manager can still be handed and that share
\* no name with a forest that uses these
DisjointFrom(used) ==
    UNION {{B \in ParsedOfSize(k) : B.names \cap used = {}} :
           k \in 1..(MaxNodes - handed)}

\* C9: when forests A and B share no name, registering A then B and
\* registering B then A give the same tree shape, whatever the forest held
\* before.
Commutativity ==
    IsRegister =>
        \A B \in DisjointFrom(NamesIn(<<call.arg>>)) :
            Shape(_registerMenu(menus, B.node).list)
              = Shape(_registerMenu(_registerMenu(before, B.node).list,
                                    call.arg).list)

\* C9 witness: A was registered, and for some B that shares no name with A
\* the two orders put the same MenuItems into sibling lists of different
\* order.
CommutativityWitness ==
    /\ IsRegister
    /\ NumItems(<<call.arg>>) > 0
    /\ \E B \in DisjointFrom(NamesIn(<<call.arg>>)) :
          /\ NumItems(<<B.node>>) > 0
          /\ _registerMenu(menus, B.node).list
                # _registerMenu(_registerMenu(before, B.node).list, call.arg).list

\* C13: unregister of a forest none of whose MenuItems is in the forest of
\* the manager raises nothing and changes nothing; a MenuItem of the same
\* name and place that another plugin owns stays.
TolerantUnregister ==
    (IsUnregister /\ ItemsIn(<<call.arg>>, <<>>) \cap ItemsIn(before, <<>>) = {}) =>
        /\ ~threw
        /\ errors = 0
        /\ menus = before
        /\ \A e \in ItemsIn(before, <<>>) : e \in ItemsIn(menus, <<>>)

\* C13 witness: unregister was called with a MenuItem whose name and place
\* a MenuItem of another plugin holds in the forest.
TolerantUnregisterWitness ==
    /\ IsUnregister
    /\ ItemsIn(<<call.arg>>, <<>>) \cap ItemsIn(before, <<>>) = {}
    /\ \E e \in ItemsIn(before, <<>>) : \E d \in ItemsIn(<<call.arg>>, <<>>) :
          /\ d.path = e.path
          /\ d.item.name = e.item.name
          /\ d.item.plugin # e.item.plugin
          /\ e \in ItemsIn(menus, <<>>)

\* every node of old is in new where it was, as it was, and the children
\* of every Menu of old are extended in this way
RECURSIVE Extends(_, _)
Extends(old, new) ==
    /\ Len(old) <= Len(new)
    /\ \A i \in 1..Len(old) :
          IF _isMenu(old[i])
          THEN /\ _isMenu(new[i])
               /\ new[i].name = old[i].name
               /\ Extends(old[i].children, new[i].children)
          ELSE new[i] = old[i]

\* a Menu by its name, a MenuItem as it is
Tag(m) == IF _isMenu(m) THEN [menu |-> m.name] ELSE [item |-> m]

\* the nodes of a forest whose parents are the Menus named by target, in
\* the order in which the forest holds them
RECURSIVE Incoming(_, _, _)
Incoming(f, path, target) ==
    IF f = <<>> THEN <<>>
    ELSE (IF path = target THEN <<Tag(Head(f))>> ELSE <<>>)
         \o (IF _isMenu(Head(f))
             THEN Incoming(Head(f).children, Append(path, Head(f).name), target)
             ELSE <<>>)
         \o Incoming(Tail(f), path, target)

RECURSIVE IsSubsequence(_, _)
IsSubsequence(s, t) ==
    IF s = <<>> THEN TRUE
    ELSE IF t = <<>> THEN FALSE
    ELSE IF Head(s) = Head(t) THEN IsSubsequence(Tail(s), Tail(t))
    ELSE IsSubsequence(s, Tail(t))

\* what the last call added to the sibling list below the Menus named by
\* path
Added(path) ==
    LET old == ListAt(before, path)
        new == ListAt(menus, path)
    IN  [i \in 1..(Len(new) - Len(old)) |-> Tag(new[Len(old) + i])]

\* C14: register leaves every node of the forest where it was and as it
\* was, so that every sibling list is a prefix of what it becomes; what a
\* call that completes adds to a sibling list stands in the order in which
\* the incoming forest holds it.
AppendOnly ==
    IsRegister =>
        /\ Extends(before, menus)
        /\ ~threw =>
              \A path \in {<<>>} \cup MenusIn(menus, <<>>) :
                  IsSubsequence(Added(path), Incoming(<<call.arg>>, <<>>, path))

\* C14 witness: register added a Menu behind the nodes of the top level and
\* two nodes, in the order of the incoming forest, to one sibling list.
AppendOnlyWitness ==
    /\ IsRegister
    /\ ~threw
    /\ before # <<>>
    /\ Len(menus) > Len(before)
    /\ \E path \in MenusIn(menus, <<>>) :
          /\ Len(Added(path)) >= 2
          /\ Added(path)[1] # Added(path)[2]

\* the places of the MenuItems of a Menu: the indices from the children of
\* the Menu down to the MenuItem
RECURSIVE ItemPositions(_)
ItemPositions(m) ==
    IF ~_isMenu(m) THEN {}
    ELSE UNION {IF _isMenu(m.children[i])
                THEN {<<i>> \o q : q \in ItemPositions(m.children[i])}
                ELSE {<<i>>} : i \in 1..Len(m.children)}

\* the Menu without the node at a place
RECURSIVE RemoveAt(_, _)
RemoveAt(m, pos) ==
    LET i == Head(pos)
    IN  IF Len(pos) = 1
        THEN [m EXCEPT !.children = SubSeq(@, 1, i - 1) \o SubSeq(@, i + 1, Len(@))]
        ELSE [m EXCEPT !.children[i] = RemoveAt(@, Tail(pos))]

\* C15: a register call that reports a conflict completes, and there is a
\* MenuItem of the incoming forest without which the call would have left
\* the same forest with one report less: the dropped MenuItem costs one
\* report and changes nothing for the other nodes.
ConflictIsLocal ==
    (IsRegister /\ errors > 0) =>
        /\ ~threw
        /\ \E pos \in ItemPositions(call.arg) :
              LET r == _registerMenu(before, RemoveAt(call.arg, pos))
              IN  /\ ~r.threw
                  /\ r.errs = errors - 1
                  /\ r.list = menus

\* C15 witness: of three MenuItems of one Menu the second was dropped for
\* the first, and the third was merged.
ConflictIsLocalWitness ==
    /\ IsRegister
    /\ errors = 1
    /\ _isMenu(call.arg)
    /\ Len(call.arg.children) = 3
    /\ \A i \in 1..3 : ~_isMenu(call.arg.children[i])
    /\ call.arg.children[2].name = call.arg.children[1].name
    /\ call.arg.children[2] # call.arg.children[1]
    /\ call.arg.children[3] \in Range(ListAt(menus, <<call.arg.name>>))
    /\ call.arg.children[2] \notin Range(ListAt(menus, <<call.arg.name>>))

-----------------------------------------------------------------------------
(* MenuParser: properties *)

\* every node of a forest, at every depth
RECURSIVE NodesIn(_)
NodesIn(f) ==
    Range(f) \cup UNION {NodesIn(f[i].children) :
                         i \in {j \in 1..Len(f) : HasChildren(f[j])}}

Returned == result.called /\ ~result.threw

\* C10: in the forest that parse returns every MenuItem, at every depth,
\* has the plugin that was passed to parse, whatever the payload said, and
\* no Menu has a plugin.
ProvenanceStamped ==
    Returned =>
        \A m \in NodesIn(result.menus) :
            IF HasChildren(m) THEN "plugin" \notin DOMAIN m
            ELSE "plugin" \in DOMAIN m /\ m.plugin = argPlugin

\* C10 witness: parse returned a forest for a payload with a Menu and,
\* inside it, a MenuItem that came with a plugin of its own.
ProvenanceStampedWitness ==
    /\ Returned
    /\ "json" \in DOMAIN argContent
    /\ \E i \in 1..Len(argContent.json) :
          /\ HasChildren(argContent.json[i])
          /\ \E m \in Range(argContent.json[i].children) :
                "plugin" \in DOMAIN m /\ m.plugin # argPlugin

\* the payload was an array, and parse was called on it
CalledOnForest == result.called /\ "json" \in DOMAIN argContent

\* a name or a command that is missing, empty or made of whitespace only
Blank(s) == s = Undefined \/ \A i \in 1..Len(s) : s[i] \in Whitespace

\* the rule that a node breaks; a MenuItem is a node without children
Rule(m) ==
    IF HasChildren(m)
    THEN IF Blank(Field(m, "name")) THEN "Menus must be named" ELSE NoError
    ELSE IF Blank(Field(m, "name")) THEN "Menu items must be named"
    ELSE IF Blank(Field(m, "command")) THEN "Menu items must have a command"
    ELSE NoError

IsSchemaError(r) ==
    r.threw /\ r.type = "Error" /\ r.message[1] = "Invalid menus: "

IsFormatError(r) ==
    r.threw /\ r.type = "Error" /\ r.message = <<"JSON in invalid format">>

\* the nodes of a forest in depth-first, left-to-right pre-order
RECURSIVE PreOrder(_)
PreOrder(f) ==
    IF f = <<>> THEN <<>>
    ELSE <<Head(f)>>
         \o (IF HasChildren(Head(f)) THEN PreOrder(Head(f).children) ELSE <<>>)
         \o PreOrder(Tail(f))

\* C11: parse throws the Error for invalid menus, and returns nothing, when
\* some node of the array, at any depth, has a missing, empty or
\* whitespace-only name, or is a MenuItem with such a command; it returns a
\* forest with the nodes of the payload when there is no such node.
SchemaValidationTotal ==
    CalledOnForest =>
        IF \E m \in NodesIn(argContent.json) : Rule(m) # NoError
        THEN IsSchemaError(result) /\ "menus" \notin DOMAIN result
        ELSE /\ ~result.threw
             /\ LET given == PreOrder(argContent.json)
                    taken == PreOrder(result.menus)
                IN  /\ Len(taken) = Len(given)
                    /\ \A i \in 1..Len(given) :
                          /\ taken[i].name = given[i].name
                          /\ HasChildren(taken[i]) = HasChildren(given[i])

\* C11 witness: parse refused an array whose only broken node is a MenuItem
\* inside a Menu, with a name and a whitespace-only command.
SchemaValidationTotalWitness ==
    /\ CalledOnForest
    /\ result.threw
    /\ \A m \in Range(argContent.json) : Rule(m) = NoError
    /\ \E m \in NodesIn(argContent.json) :
          /\ Field(m, "name") = <<"a">>
          /\ Field(m, "command") = <<" ">>

\* C12: for a text that is not well-formed JSON parse throws the Error for
\* the invalid format and returns nothing, and the manager is as it was: no
\* call reached it.
MalformedRejected ==
    (result.called /\ ~argContent.wellFormed) =>
        /\ IsFormatError(result)
        /\ "menus" \notin DOMAIN result
        /\ menus = <<>>
        /\ call = NoCall

\* C12 witness: parse was called on a text that is not well-formed.
MalformedRejectedWitness ==
    /\ result.called
    /\ ~argContent.wellFormed
    /\ result.threw

\* the positions of the broken nodes in a pre-order
Violations(nodes) == {i \in 1..Len(nodes) : Rule(nodes[i]) # NoError}

\* C16: when the array has broken nodes, the Error of parse names the rule
\* that the first of them in pre-order breaks, the name rule before the
\* command rule.
ValidationOrder ==
    CalledOnForest =>
        LET nodes == PreOrder(argContent.json)
            bad == Violations(nodes)
        IN  bad # {} =>
              result = [called |-> TRUE]
                       @@ InvalidMenus(Rule(nodes[CHOOSE i \in bad : \A j \in bad : i <= j]))

\* C16 witness: a Menu holds a MenuItem that breaks both rules, and a later
\* sibling of the Menu breaks the rule of Menus; parse reported the name
\* rule of MenuItems.
ValidationOrderWitness ==
    /\ CalledOnForest
    /\ Len(argContent.json) = 2
    /\ HasChildren(argContent.json[1])
    /\ Rule(argContent.json[1]) = NoError
    /\ Len(argContent.json[1].children) = 1
    /\ ~HasChildren(argContent.json[1].children[1])
    /\ Blank(Field(argContent.json[1].children[1], "name"))
    /\ Blank(Field(argContent.json[1].children[1], "command"))
    /\ Rule(argContent.json[2]) = "Menus must be named"
    /\ result.threw
    /\ result.message = <<"Invalid menus: ", "Menu items must be named">>

\* C17: for a well-formed text whose value is not an array parse throws
\* the Error for invalid menus; it throws nothing else and returns nothing.
OnlyDeclaredErrors ==
    (result.called /\ argContent.wellFormed /\ "json" \notin DOMAIN argContent)
        => IsSchemaError(result)

-----------------------------------------------------------------------------
(* Store: properties *)

\* C18: as long as every removeRunConfig was given a configuration of the
\* list or an index inside the list, chosenRunConfig is undefined exactly
\* when runConfigurations is empty, and is an element of runConfigurations
\* otherwise.
ChosenIsListed ==
    inRange =>
        IF runConfigurations = <<>> THEN chosenRunConfig = Undefined
        ELSE chosenRunConfig \in Range(runConfigurations)

\* C18 witness: the chosen configuration was removed from a list that holds
\* others, and one of the others is chosen.
ChosenIsListedWitness ==
    /\ inRange
    /\ commit.op = "removeRunConfig"
    /\ commit.chosen # Undefined
    /\ commit.chosen \notin Range(runConfigurations)
    /\ runConfigurations # <<>>
    /\ chosenRunConfig \in Range(runConfigurations)

\* C19: removeRunConfig with a configuration that is not in the list leaves
\* runConfigurations and chosenRunConfig as they were.
RemoveAbsentIsNoOp ==
    [][(/\ commit'.op = "removeRunConfig"
        /\ "object" \in DOMAIN commit'.payload
        /\ commit'.payload.object \notin Range(runConfigurations))
       => /\ runConfigurations' = runConfigurations
          /\ chosenRunConfig' = chosenRunConfig]_vars

====
